---- MODULE Spec2Model ----
(***************************************************************************)
(* Ship tag parsing (Ship::from_str) and the character co-occurrence       *)
(* aggregation of the vis binary (src/bin/vis.rs).                         *)
(*                                                                         *)
(* A tag is a sequence of one-character strings.  Names are compared as    *)
(* Rust compares String values: lexicographically by byte.                 *)
(***************************************************************************)
EXTENDS Integers, Sequences, FiniteSets, TLC

\* ------------------------------------------------------------------ bounds
\* number of worker threads of fetch
MaxThreads == 2
\* number of pages fetch is asked for
MaxPages == 2
\* number of lines of the input file of index
MaxLines == 4
\* largest --chunk-size
MaxChunkSize == 2
\* longest tag handed to Ship::from_str on its own
MaxTagLen == 3
\* number of characters a tag may grow by when it is re-spelt
MaxGrow == 2
\* number of elements of a search page
MaxElements == 2
\* number of buckets of the aggregation response
MaxBuckets == 2
\* largest doc_count of a bucket
MaxCount == 2

\* ------------------------------------------------------------- characters
\* the characters tags are made of: two letters, whitespace, both
\* delimiters and the parenthesis that opens a fandom qualifier
Alphabet == {"A", "B", " ", "/", "&", "("}

\* byte value of a character (String ordering is bytewise)
Byte(c) ==
  CASE c = " " -> 32
    [] c = "&" -> 38
    [] c = "(" -> 40
    [] c = "/" -> 47
    [] c = "A" -> 65
    [] c = "B" -> 66

\* char::is_whitespace, as used by str::trim
IsWhitespace(c) == c = " "

\* all tags of at most n characters
TagsUpTo(n) == UNION {[1..k -> Alphabet] : k \in 0..n}

\* bucket keys of the aggregation response: the relationship tags of the
\* index, in the spellings the aggregation has to cope with
BucketKeys ==
  { <<"A", "/", "B">>,                     \* A/B
    <<"B", "/", "A">>,                     \* the same ship, other order
    <<" ", "B", " ", "/", " ", "A", " ">>, \* the same ship, padded
    <<"A", " ", "(", "B", "/", "B">>,      \* the same ship, with a fandom
    <<"A", "/", "A", "B">>,                \* A/AB
    <<"A", "B", "/", "B">>,                \* AB/B
    <<"A", "/", "A">>,                     \* one character twice
    <<"A", "(", "/", "A", " ">>,           \* one character twice, re-spelt
    <<"A", "/">>,                          \* an empty name
    <<"A", "&", "B">>,                     \* A & B
    <<"B", "&", "A">>,                     \* the same, other order
    <<"A", "/", "B", "&", "A">>,           \* both delimiters
    <<"A", "/", "B", "/", "A">>,           \* three characters
    <<"A", "&", "B", "&", "A", "B">>,      \* three characters, platonic
    <<"A", "B">> }                         \* no delimiter

\* --------------------------------------------------------- str operations
\* str::contains(char)
Contains(s, c) == \E i \in 1..Len(s) : s[i] = c

\* str::find(char): index of the first occurrence, 0 when there is none
Find(s, c) ==
  IF Contains(s, c)
    THEN CHOOSE i \in 1..Len(s) : s[i] = c /\ \A j \in 1..(i - 1) : s[j] # c
    ELSE 0

\* str::split(char): the pieces between occurrences of the delimiter
RECURSIVE Split(_, _)
Split(s, d) ==
  LET at == Find(s, d) IN
  IF at = 0
    THEN <<s>>
    ELSE <<SubSeq(s, 1, at - 1)>> \o Split(SubSeq(s, at + 1, Len(s)), d)

\* str::trim_start
RECURSIVE TrimStart(_)
TrimStart(s) ==
  IF s # <<>> /\ IsWhitespace(Head(s)) THEN TrimStart(Tail(s)) ELSE s

\* str::trim_end
RECURSIVE TrimEnd(_)
TrimEnd(s) ==
  IF s # <<>> /\ IsWhitespace(s[Len(s)])
    THEN TrimEnd(SubSeq(s, 1, Len(s) - 1))
    ELSE s

\* only the leading whitespace removed
TrimStartOnly(s) == TrimStart(s)

\* str::trim
Trim(s) == TrimEnd(TrimStart(s))

\* Ord for String: strict lexicographic order by byte
RECURSIVE StrLess(_, _)
StrLess(s, t) ==
  IF t = <<>> THEN FALSE
  ELSE IF s = <<>> THEN TRUE
  ELSE IF Byte(Head(s)) # Byte(Head(t)) THEN Byte(Head(s)) < Byte(Head(t))
  ELSE StrLess(Tail(s), Tail(t))

StrLessEq(s, t) == s = t \/ StrLess(s, t)

\* insertion of one string into a sorted list
RECURSIVE SortedInsert(_, _)
SortedInsert(x, sorted) ==
  IF sorted = <<>> THEN <<x>>
  ELSE IF StrLessEq(x, Head(sorted)) THEN <<x>> \o sorted
  ELSE <<Head(sorted)>> \o SortedInsert(x, Tail(sorted))

\* the list left as it was
SortUnstableSkipped(v) == v

\* slice::sort_unstable on a Vec<String>
RECURSIVE SortUnstable(_)
SortUnstable(v) ==
  IF v = <<>> THEN <<>> ELSE SortedInsert(Head(v), SortUnstable(Tail(v)))

\* ------------------------------------------------------------- ShipKind
Romantic == "Romantic"
Platonic == "Platonic"
ShipKind == {Romantic, Platonic}

\* ------------------------------------------------------- Ship::from_str
UnknownShipKind == "Unknown ship kind"
UnsupportedArity == "Ship must have exactly two characters"

Err(msg) == [ok |-> FALSE, err |-> msg]
Ok(v) == [ok |-> TRUE, ship |-> v]

\* the '&' test left out
DelimiterSlashOnly(ship) ==
  IF Contains(ship, "/") THEN <<"/", Romantic>> ELSE <<>>

\* the '&' test made first
DelimiterAmpersandFirst(ship) ==
  IF Contains(ship, "&") THEN <<"&", Platonic>>
  ELSE IF Contains(ship, "/") THEN <<"/", Romantic>>
  ELSE <<>>

\* lines 226-232: the delimiter and the kind, <<>> when neither is present
Delimiter(ship) ==
  IF Contains(ship, "/") THEN <<"/", Romantic>>
  ELSE IF Contains(ship, "&") THEN <<"&", Platonic>>
  ELSE <<>>

\* the closure without the truncation at '('
CharacterNameKeepFandom(name) == Trim(name)

\* lines 237-242: the closure mapped over the candidates
CharacterName(name) ==
  LET fandom_start == Find(name, "(") IN
  Trim(IF fandom_start # 0 THEN SubSeq(name, 1, fandom_start - 1) ELSE name)

\* lines 235-243: split on the delimiter, clean every candidate
Characters(ship, delimiter) ==
  LET parts == Split(ship, delimiter) IN
  [i \in 1..Len(parts) |-> CharacterName(parts[i])]

\* from_str without line 244, the characters left in tag order
FromStrUnsorted(ship) ==
  LET dk == Delimiter(ship) IN
  IF dk = <<>>
    THEN Err(UnknownShipKind)
    ELSE Ok([characters |-> Characters(ship, dk[1]), kind |-> dk[2]])

\* Ship::from_str
FromStr(ship) ==
  LET dk == Delimiter(ship) IN
  IF dk = <<>>
    THEN Err(UnknownShipKind)
    ELSE Ok([characters |-> SortUnstable(Characters(ship, dk[1])),
             kind |-> dk[2]])

\* ------------------------------------------------------------------ state
VARIABLES
  ship,          \* from_str: the tag given to Ship::from_str
  other,         \* from_str: a second tag, a re-spelling of the first
  edits,         \* from_str: the kinds of re-spelling that made `other`
  parsed,        \* from_str: result for `ship`, NotParsed before the call
  parsedOther,   \* from_str: result for `other`, NotParsed before the call
  opt_ship_kind, \* main: opt.ship_kind, the requested kind
  pc,            \* main: position in main
  last,          \* main: the bucket the filter_map closure saw last
  freqs,         \* main: Vec<(Ship, u64)>
  names,         \* main: Vec<String>
  character_index, \* main: HashMap<&str, usize>
  matrix,        \* main: Vec<Vec<f64>>
  idx            \* main: position of the accumulation loop in freqs

VARIABLES
  body,          \* scrape: the parsed page, its elements in document order
  cursor,        \* scrape: number of elements the select iterator has passed
  works,         \* scrape: the records collected so far
  page_result,   \* scrape: what search_page_to_works returned
  stdout,        \* fetch: the lines written to standard output
  fetch_pc,      \* fetch: position of the closure run for the page
  response_body, \* search: the JSON body of the aggregation response
  buckets,       \* search: the buckets array, once found
  pairs,         \* search: the (key, doc_count) pairs mapped so far
  frequencies,   \* search: what ship_frequencies returned
  query_pc       \* search: position in ship_frequencies

VARIABLES
  ship_type,      \* ships: opt.ship_type, the requested kind
  ships_pc,       \* ships: position in main
  ships_results,  \* ships: what relationship_frequencies returned
  ships_freqs,    \* ships: freqs
  character_list, \* ships: the names, sorted
  ships_index,    \* ships: character_index
  ships_matrix,   \* ships: matrix
  ships_idx       \* ships: position of the loop over freqs that fills matrix

shipsVars == <<ship_type, ships_pc, ships_results, ships_freqs, character_list,
               ships_index, ships_matrix, ships_idx>>
VARIABLES
  threads,        \* fetch: the workers of the pool, each with its closure's position
  taken,          \* fetch: the pages handed to a worker so far
  handle          \* fetch: the thread holding the lock on stdout, 0 when free

poolVars == <<threads, taken, handle>>
VARIABLES
  file,           \* index: the lines of the input file
  chunk_size,     \* index: opt.chunk_size
  lines_read,     \* index: number of lines taken from file.lines()
  ops,            \* index: the operations pushed for the current chunk
  bulk,           \* index: the bulk requests sent, in order
  index_pc,       \* index: position in main
  index_result    \* index: what main returned

indexVars == <<file, chunk_size, lines_read, ops, bulk, index_pc, index_result>>
scrapeVars == <<body, cursor, works, page_result, stdout, fetch_pc>>
queryVars == <<response_body, buckets, pairs, frequencies, query_pc>>

shipVars == <<ship, other, edits, parsed, parsedOther>>
mainVars == <<opt_ship_kind, pc, last, freqs, names, character_index, matrix, idx>>
vars == <<ship, other, edits, parsed, parsedOther,
          opt_ship_kind, pc, last, freqs, names, character_index, matrix, idx,
          body, cursor, works, page_result, stdout, fetch_pc,
          response_body, buckets, pairs, frequencies, query_pc,
          ship_type, ships_pc, ships_results, ships_freqs, character_list,
          ships_index, ships_matrix, ships_idx,
          threads, taken, handle,
          file, chunk_size, lines_read, ops, bulk, index_pc, index_result>>

NotParsed == [ok |-> FALSE, err |-> "not parsed"]
NoBucket == [n |-> 0, tag |-> <<>>, count |-> 0, result |-> NotParsed]

\* main not running
MainIdle ==
  /\ opt_ship_kind = Romantic
  /\ pc = "idle"
  /\ last = NoBucket
  /\ freqs = <<>>
  /\ names = <<>>
  /\ character_index = <<>>
  /\ matrix = <<>>
  /\ idx = 0

\* a call that has not returned
NotReturned == [ok |-> FALSE, err |-> <<"not returned">>]

\* no page under extraction
ScrapeIdle ==
  /\ body = <<>>
  /\ cursor = 0
  /\ works = <<>>
  /\ page_result = NotReturned
  /\ stdout = <<>>
  /\ fetch_pc = "idle"

\* no aggregation query under way
QueryIdle ==
  /\ response_body = [t |-> "null"]
  /\ buckets = <<>>
  /\ pairs = <<>>
  /\ frequencies = NotReturned
  /\ query_pc = "idle"

\* the index binary not running
IndexIdle ==
  /\ file = <<>>
  /\ chunk_size = 0
  /\ lines_read = 0
  /\ ops = <<>>
  /\ bulk = <<>>
  /\ index_pc = "idle"
  /\ index_result = NotReturned

\* a worker that runs no closure
IdleThread == [pc |-> "idle", page |-> 0, works |-> 0, written |-> 0]

\* the pool of fetch not running
PoolIdle ==
  /\ threads = <<>>
  /\ taken = {}
  /\ handle = 0

\* the ships binary not running
ShipsIdle ==
  /\ ship_type = "Romantic"
  /\ ships_pc = "idle"
  /\ ships_results = <<>>
  /\ ships_freqs = <<>>
  /\ character_list = <<>>
  /\ ships_index = <<>>
  /\ ships_matrix = <<>>
  /\ ships_idx = 0

\* no tag under study
ShipIdle ==
  /\ ship = <<>>
  /\ other = <<>>
  /\ edits = {}
  /\ parsed = NotParsed
  /\ parsedOther = NotParsed

\* ------------------------------------------- Ship::from_str on two tags
\* the pieces of a tag around its delimiter, the whole tag when it has none
Parts(tag) ==
  IF Delimiter(tag) = <<>> THEN <<tag>> ELSE Split(tag, Delimiter(tag)[1])

\* the pieces put together again with the delimiter
RECURSIVE Join(_, _)
Join(parts, d) ==
  IF Len(parts) = 1 THEN parts[1]
  ELSE parts[1] \o <<d>> \o Join(Tail(parts), d)

Rejoin(tag, parts) ==
  IF Delimiter(tag) = <<>> THEN parts[1] ELSE Join(parts, Delimiter(tag)[1])

\* fandom qualifiers of at most n characters: '(' and a text without
\* delimiter
Qualifiers(n) ==
  {<<"(">> \o t : t \in UNION {[1..k -> {"A", " "}] : k \in 0..(n - 1)}}

InitShip ==
  /\ ship \in TagsUpTo(MaxTagLen)
  /\ other = ship
  /\ edits = {}
  /\ parsed = NotParsed
  /\ parsedOther = NotParsed
  /\ MainIdle
  /\ ScrapeIdle
  /\ QueryIdle
  /\ ShipsIdle
  /\ PoolIdle
  /\ IndexIdle

\* the same characters written in another order
Reorder ==
  /\ parsed # NotParsed
  /\ parsedOther = NotParsed
  /\ \E i \in 1..(Len(Parts(other)) - 1) :
       LET parts == Parts(other)
           swapped == [parts EXCEPT ![i] = parts[i + 1], ![i + 1] = parts[i]]
       IN other' = Rejoin(other, swapped)
  /\ edits' = edits \cup {"reorder"}
  /\ UNCHANGED <<ship, parsed, parsedOther, mainVars, scrapeVars, queryVars>>
  /\ UNCHANGED shipsVars
  /\ UNCHANGED poolVars
  /\ UNCHANGED indexVars

\* whitespace added before or after one name
Pad ==
  /\ parsed # NotParsed
  /\ parsedOther = NotParsed
  /\ Len(other) < Len(ship) + MaxGrow
  /\ \E i \in 1..Len(Parts(other)), front \in BOOLEAN :
       LET parts == Parts(other)
           padded == IF front THEN <<" ">> \o parts[i] ELSE parts[i] \o <<" ">>
       IN other' = Rejoin(other, [parts EXCEPT ![i] = padded])
  /\ edits' = edits \cup {"pad"}
  /\ UNCHANGED <<ship, parsed, parsedOther, mainVars, scrapeVars, queryVars>>
  /\ UNCHANGED shipsVars
  /\ UNCHANGED poolVars
  /\ UNCHANGED indexVars

\* a fandom qualifier added after one name
Qualify ==
  /\ parsed # NotParsed
  /\ parsedOther = NotParsed
  /\ Len(other) < Len(ship) + MaxGrow
  /\ \E i \in 1..Len(Parts(other)),
        q \in Qualifiers(Len(ship) + MaxGrow - Len(other)) :
       LET parts == Parts(other)
       IN other' = Rejoin(other, [parts EXCEPT ![i] = parts[i] \o q])
  /\ edits' = edits \cup {"qualify"}
  /\ UNCHANGED <<ship, parsed, parsedOther, mainVars, scrapeVars, queryVars>>
  /\ UNCHANGED shipsVars
  /\ UNCHANGED poolVars
  /\ UNCHANGED indexVars

\* Ship::from_str(&ship)
ParseShip ==
  /\ parsed = NotParsed
  /\ parsed' = FromStr(ship)
  /\ UNCHANGED <<ship, other, edits, parsedOther, mainVars, scrapeVars, queryVars>>
  /\ UNCHANGED shipsVars
  /\ UNCHANGED poolVars
  /\ UNCHANGED indexVars

\* Ship::from_str(&other)
ParseOther ==
  /\ parsed # NotParsed
  /\ parsedOther = NotParsed
  /\ parsedOther' = FromStr(other)
  /\ UNCHANGED <<ship, other, edits, parsed, mainVars, scrapeVars, queryVars>>
  /\ UNCHANGED shipsVars
  /\ UNCHANGED poolVars
  /\ UNCHANGED indexVars

NextShip == Reorder \/ Pad \/ Qualify \/ ParseShip \/ ParseOther

SpecShip == InitShip /\ [][NextShip]_vars

\* ------------------------------------------------------------ vis.rs main
\* lines 111-127 without the check of the number of characters
ParseBucketAnyArity(tag) == FromStr(tag)

\* lines 111-127: from_str, then the tag must have two characters
ParseBucket(tag) ==
  LET r == FromStr(tag) IN
  IF r.ok /\ Len(r.ship.characters) # 2 THEN Err(UnsupportedArity) ELSE r

\* every parsed ship kept, whatever its kind
KeepAnyKind(r, kind) == r.ok

\* line 130 after line 127: a parsed ship of the requested kind is kept
Keep(r, kind) == r.ok /\ r.ship.kind = kind

\* only the first character of every ship collected
CharacterSetFirstOnly(f) == {f[k].ship.characters[1] : k \in 1..Len(f)}

\* lines 134-139: the HashSet of all characters of the retained ships
CharacterSet(f) ==
  UNION {{f[k].ship.characters[c] : c \in 1..Len(f[k].ship.characters)} :
         k \in 1..Len(f)}

\* the orders in which a HashSet may hand out its elements
RECURSIVE IterationOrders(_)
IterationOrders(S) ==
  IF S = {} THEN {<<>>}
  ELSE UNION {{<<x>> \o o : o \in IterationOrders(S \ {x})} : x \in S}

\* lines 145-149: name -> index, a later pair replacing an earlier one
CharacterIndex(v) ==
  [c \in {v[i] : i \in 1..Len(v)} |->
     CHOOSE i \in 1..Len(v) : v[i] = c /\ \A j \in (i + 1)..Len(v) : v[j] # c]

\* line 152: vec![vec![0.; n]; n]
Zeroes(n) == [i \in 1..n |-> [j \in 1..n |-> 0]]

\* the count assigned, as ships.rs does
AssignCount(m, one, two, count) ==
  LET m1 == [m EXCEPT ![one][two] = count] IN
  [m1 EXCEPT ![two][one] = count]

\* the count added to one cell only
AddCountOneCell(m, one, two, count) == [m EXCEPT ![one][two] = @ + count]

\* lines 161-162: the count added to both cells, one after the other
AddCount(m, one, two, count) ==
  LET m1 == [m EXCEPT ![one][two] = @ + count] IN
  [m1 EXCEPT ![two][one] = @ + count]

\* the state once ship_frequencies has returned Ok (line 107)
Init ==
  /\ ShipIdle
  /\ ScrapeIdle
  /\ QueryIdle
  /\ opt_ship_kind \in ShipKind
  /\ pc = "filter_map"
  /\ last = NoBucket
  /\ freqs = <<>>
  /\ names = <<>>
  /\ character_index = <<>>
  /\ matrix = <<>>
  /\ idx = 0
  /\ ShipsIdle
  /\ PoolIdle
  /\ IndexIdle

\* lines 110-129, the filter_map closure on the next bucket of `results`
FilterMap ==
  /\ pc = "filter_map"
  /\ last.n < MaxBuckets
  /\ \E tag \in BucketKeys, count \in 0..MaxCount :
       last' = [n |-> last.n + 1, tag |-> tag, count |-> count,
                result |-> ParseBucket(tag)]
  /\ pc' = "filter"
  /\ UNCHANGED <<shipVars, scrapeVars, queryVars, opt_ship_kind, freqs, names, character_index,
                 matrix, idx>>
  /\ UNCHANGED shipsVars
  /\ UNCHANGED poolVars
  /\ UNCHANGED indexVars

\* lines 130-131, the closure's item through filter and into the Vec
Filter ==
  /\ pc = "filter"
  /\ freqs' = IF Keep(last.result, opt_ship_kind)
                THEN Append(freqs, [ship |-> last.result.ship,
                                    count |-> last.count])
                ELSE freqs
  /\ last' = [NoBucket EXCEPT !.n = last.n]
  /\ pc' = "filter_map"
  /\ UNCHANGED <<shipVars, scrapeVars, queryVars, opt_ship_kind, names, character_index, matrix, idx>>
  /\ UNCHANGED shipsVars
  /\ UNCHANGED poolVars
  /\ UNCHANGED indexVars

\* lines 133-152, `results` exhausted: names, character_index, empty matrix
CollectNames ==
  /\ pc = "filter_map"
  /\ \E order \in IterationOrders(CharacterSet(freqs)) :
       /\ names' = SortUnstable(order)
       /\ character_index' = CharacterIndex(names')
       /\ matrix' = Zeroes(Len(names'))
  /\ idx' = 1
  /\ pc' = "accumulate"
  /\ UNCHANGED <<shipVars, scrapeVars, queryVars, opt_ship_kind, last, freqs>>
  /\ UNCHANGED shipsVars
  /\ UNCHANGED poolVars
  /\ UNCHANGED indexVars

\* lines 153-163, one iteration of the loop over freqs
Accumulate ==
  /\ pc = "accumulate"
  /\ idx <= Len(freqs)
  /\ LET characters == freqs[idx].ship.characters
         count == freqs[idx].count
     IN IF /\ Len(characters) >= 2
           /\ characters[1] \in DOMAIN character_index
           /\ characters[2] \in DOMAIN character_index
          THEN /\ matrix' = AddCount(matrix, character_index[characters[1]],
                                     character_index[characters[2]], count)
               /\ idx' = idx + 1
               /\ pc' = pc
          ELSE \* index out of bounds, or expect("character to have index")
               /\ pc' = "panic"
               /\ UNCHANGED <<matrix, idx>>
  /\ UNCHANGED <<shipVars, scrapeVars, queryVars, opt_ship_kind, last, freqs, names, character_index>>
  /\ UNCHANGED shipsVars
  /\ UNCHANGED poolVars
  /\ UNCHANGED indexVars

\* lines 165-187, the loop over freqs finished: colors, Chord, Ok(())
Render ==
  /\ pc = "accumulate"
  /\ idx > Len(freqs)
  /\ pc' = "done"
  /\ UNCHANGED <<shipVars, scrapeVars, queryVars, opt_ship_kind, last, freqs, names, character_index,
                 matrix, idx>>
  /\ UNCHANGED shipsVars
  /\ UNCHANGED poolVars
  /\ UNCHANGED indexVars

Next == FilterMap \/ Filter \/ CollectNames \/ Accumulate \/ Render

Spec == Init /\ [][Next]_vars

\* ================================================= scrape.rs, fetch.rs
\* A page is the sequence of its elements in document order.  Of an
\* element the model keeps the tag, the classes, the id attribute and, for
\* every selector of scrape.rs, the first text of each descendant the
\* selector matches (None for a match without text node).

\* Option
None == [some |-> FALSE]
Some(x) == [some |-> TRUE, v |-> x]

\* Result of the closure: Ok(work), Err(contexts, outermost first), or the
\* thread panicking
Done(x) == [ok |-> TRUE, v |-> x]
Panic(msg) == [ok |-> FALSE, panic |-> msg]
IsErr(r) == ~r.ok /\ "err" \in DOMAIN r
IsPanic(r) == ~r.ok /\ "panic" \in DOMAIN r

\* str::strip_prefix
StripPrefix(s, prefix) ==
  IF Len(s) >= Len(prefix) /\ SubSeq(s, 1, Len(prefix)) = prefix
    THEN Some(SubSeq(s, Len(prefix) + 1, Len(s)))
    ELSE None

WorkPrefix == <<"w", "o", "r", "k", "_">>

\* str::replace(from, ""), for a one-character pattern
RECURSIVE Remove(_, _)
Remove(s, c) ==
  IF s = <<>> THEN <<>>
  ELSE IF Head(s) = c THEN Remove(Tail(s), c)
  ELSE <<Head(s)>> \o Remove(Tail(s), c)

Digits == {"0", "1", "2", "3", "4", "5", "6", "7", "8", "9"}

DigitValue(c) ==
  CASE c = "0" -> 0 [] c = "1" -> 1 [] c = "2" -> 2 [] c = "3" -> 3
    [] c = "4" -> 4 [] c = "5" -> 5 [] c = "6" -> 6 [] c = "7" -> 7
    [] c = "8" -> 8 [] c = "9" -> 9

RECURSIVE DecimalValue(_, _)
DecimalValue(s, acc) ==
  IF s = <<>> THEN acc ELSE DecimalValue(Tail(s), 10 * acc + DigitValue(Head(s)))

\* str::parse::<u32>: an optional '+', then digits only and at least one.
\* (The texts of the model have at most four digits, far from u32::MAX.)
ParseU32(s) ==
  LET digits == IF s # <<>> /\ Head(s) = "+" THEN Tail(s) ELSE s IN
  IF digits # <<>> /\ \A i \in 1..Len(digits) : digits[i] \in Digits
    THEN Some(DecimalValue(digits, 0))
    ELSE None

\* Option::context: Some(x) to Ok(x), None to an error
OkOr(option, context) ==
  IF option.some THEN Done(option.v) ELSE Err(<<context>>)

\* lines 49-55, SelectExt::next_text on the matches still to come
NextText(matches) ==
  IF matches = <<>> THEN Err(<<"selector to find element">>)
  ELSE IF ~matches[1].some THEN Err(<<"element to have text">>)
  ELSE Done(matches[1].v)

\* anyhow's Context::context on a Result
WithContext(r, context) ==
  IF r.ok THEN r ELSE Err(<<context>> \o r.err)

\* next_number without the removal of the separators
NextNumberKeepSeparators(matches) ==
  LET text == NextText(matches) IN
  IF ~text.ok THEN text
  ELSE LET n == ParseU32(text.v) IN
       IF n.some THEN Done(n.v)
       ELSE Err(<<"failed to parse number">>)

\* lines 57-62, SelectExt::next_number
NextNumber(matches) ==
  LET text == NextText(matches) IN
  IF ~text.ok THEN text
  ELSE LET n == ParseU32(Remove(text.v, ",")) IN
       IF n.some THEN Done(n.v)
       ELSE Err(<<"failed to parse number">>)

\* collect_texts that leaves out the matches without text
CollectTextsSkipEmpty(matches) ==
  Done(LET F[i \in 0..Len(matches)] ==
               IF i = 0 THEN <<>>
               ELSE IF matches[i].some THEN Append(F[i - 1], matches[i].v)
               ELSE F[i - 1]
       IN F[Len(matches)])

\* lines 64-73, SelectExt::collect_texts: the texts in order, the first
\* match without text fails the whole
CollectTexts(matches) ==
  IF \E i \in 1..Len(matches) : ~matches[i].some
    THEN Err(<<"element to have text">>)
    ELSE Done([i \in 1..Len(matches) |-> matches[i].v])

\* Result::unwrap_or
UnwrapOr(r, default) == IF r.ok THEN r.v ELSE default

\* Result::ok
ResultOk(r) == IF r.ok THEN Some(r.v) ELSE None

\* a date text is the sequence of its words; chrono reads "%d %b %Y"
DayNumbers == [w \in {"05", "31"} |-> CASE w = "05" -> 5 [] w = "31" -> 31]
MonthNumbers == [w \in {"Dec", "Feb"} |-> CASE w = "Dec" -> 12 [] w = "Feb" -> 2]
YearNumbers == [w \in {"2020"} |-> 2020]
DaysIn(month) == IF month = 2 THEN 29 ELSE 31

\* lines 105-111, NaiveDate::parse_from_str(text, "%d %b %Y")
ParseDate(text) ==
  IF /\ Len(text) = 3
     /\ text[1] \in DOMAIN DayNumbers
     /\ text[2] \in DOMAIN MonthNumbers
     /\ text[3] \in DOMAIN YearNumbers
     /\ DayNumbers[text[1]] <= DaysIn(MonthNumbers[text[2]])
    THEN Some([day |-> DayNumbers[text[1]], month |-> MonthNumbers[text[2]],
               year |-> YearNumbers[text[3]]])
    ELSE None

\* the attribute taken whole when it lacks the prefix
WorkIdLenient(el) ==
  IF ~el.id.some THEN Err(<<"work to have id">>)
  ELSE LET stripped == StripPrefix(el.id.v, WorkPrefix) IN
       Done(IF stripped.some THEN stripped.v ELSE el.id.v)

\* lines 81-87, the id attribute without its prefix
WorkId(el) ==
  IF ~el.id.some THEN Err(<<"work to have id">>)
  ELSE OkOr(StripPrefix(el.id.v, WorkPrefix), "work id to have prefix")

\* line 90, the text of the first heading link
Title(heading) == WithContext(NextText(heading), "title")

\* a name put in for a missing author
AuthorSentinel(heading) == Some(UnwrapOr(NextText(Tail(heading)), "Anonymous"))

\* line 91, the text of the second heading link, if any
Author(heading) ==
  IF heading = <<>> THEN None ELSE ResultOk(NextText(Tail(heading)))

\* lines 105-112, the date: an Err without element or text, a panic on a
\* text of another format
WorkDate(el) ==
  LET text == WithContext(NextText(el.date), "date") IN
  IF ~text.ok THEN text
  ELSE IF ~ParseDate(text.v).some THEN Panic("unexpected date format")
  ELSE Done(ParseDate(text.v).v)

\* lines 113-117
Language(el) == UnwrapOr(NextText(el.language), "")

\* lines 118-129, words, kudos and hits alike
Statistic(matches) == UnwrapOr(NextNumber(matches), 0)

\* lines 80-144, the closure on one li.work element
WorkOf(el) ==
  LET id == WorkId(el)
      title == Title(el.heading)
      relationships == WithContext(CollectTexts(el.relationships), "relationships")
      characters == WithContext(CollectTexts(el.characters), "characters")
      freeforms == WithContext(CollectTexts(el.freeforms), "freeforms")
      date == WorkDate(el)
  IN
  IF ~id.ok THEN id
  ELSE IF ~title.ok THEN title
  ELSE IF ~relationships.ok THEN relationships
  ELSE IF ~characters.ok THEN characters
  ELSE IF ~freeforms.ok THEN freeforms
  ELSE IF ~date.ok THEN date
  ELSE Done([id |-> id.v,
             title |-> title.v,
             author |-> Author(el.heading),
             relationships |-> relationships.v,
             characters |-> characters.v,
             freeforms |-> freeforms.v,
             date |-> date.v,
             language |-> Language(el),
             words |-> Statistic(el.words),
             kudos |-> Statistic(el.kudos),
             hits |-> Statistic(el.hits)])

\* the selector "li"
IsWorkAnyLi(el) == el.tag = "li"

\* line 22, the selector "li.work"
IsWork(el) == el.tag = "li" /\ "work" \in el.class

\* a work listing with every field present and well-formed
BaseWork ==
  [tag |-> "li",
   class |-> {"work", "blurb"},
   id |-> Some(<<"w", "o", "r", "k", "_", "7">>),
   heading |-> <<Some("Title"), Some("Author")>>,
   relationships |-> <<Some("A/B"), Some("B & A")>>,
   characters |-> <<Some("A")>>,
   freeforms |-> <<Some("Fluff")>>,
   date |-> <<Some(<<"05", "Dec", "2020">>)>>,
   language |-> <<Some("English")>>,
   words |-> <<Some(<<"1", ",", "2", "3", "4">>)>>,
   kudos |-> <<Some(<<"1", "2">>)>>,
   hits |-> <<Some(<<"7">>)>>]

\* what a listing may have in the place of a field of BaseWork
WellFormedVariants ==
  { <<"id", Some(<<"w", "o", "r", "k", "_", "8">>)>>,
    <<"id", Some(WorkPrefix)>>,
    <<"heading", <<Some("Title")>>>>,
    <<"heading", <<Some("Title"), None>>>>,
    <<"relationships", <<>>>>,
    <<"characters", <<>>>>,
    <<"freeforms", <<>>>>,
    <<"language", <<>>>>,
    <<"language", <<None>>>>,
    <<"words", <<>>>>,
    <<"words", <<None>>>>,
    <<"kudos", <<>>>>,
    <<"kudos", <<Some(<<"1", ",", "2", "3", "4">>)>>>>,
    <<"kudos", <<Some(<<"+", "5">>)>>>>,
    <<"hits", <<>>>> }

MalformedVariants ==
  { <<"id", None>>,
    <<"id", Some(<<"7">>)>>,
    <<"heading", <<>>>>,
    <<"heading", <<None, Some("Author")>>>>,
    <<"relationships", <<Some("A/B"), None>>>>,
    <<"relationships", <<None, Some("A/B")>>>>,
    <<"characters", <<None>>>>,
    <<"freeforms", <<None>>>>,
    <<"date", <<>>>>,
    <<"date", <<None>>>>,
    <<"date", <<Some(<<"2020-12-05">>)>>>>,
    <<"date", <<Some(<<"31", "Feb", "2020">>)>>>>,
    <<"words", <<Some(<<"1", "2", "a">>)>>>>,
    <<"kudos", <<Some(<<",">>)>>>>,
    <<"hits", <<Some(<<"-", "1">>)>>>> }

\* malformed fields that are put together in one listing
PairedVariants ==
  { <<"id", None>>,
    <<"heading", <<>>>>,
    <<"heading", <<Some("Title")>>>>,
    <<"relationships", <<Some("A/B"), None>>>>,
    <<"characters", <<None>>>>,
    <<"date", <<>>>>,
    <<"date", <<Some(<<"2020-12-05">>)>>>>,
    <<"kudos", <<Some(<<",">>)>>>> }

\* the elements a page is made of: work listings, and elements that the
\* selector "li.work" does not match
Elements ==
  {BaseWork}
  \cup {[BaseWork EXCEPT ![x[1]] = x[2]] : x \in WellFormedVariants \cup MalformedVariants}
  \cup {[[BaseWork EXCEPT ![x[1]] = x[2]] EXCEPT ![y[1]] = y[2]] :
          x \in PairedVariants, y \in PairedVariants}
  \cup {[BaseWork EXCEPT !.class = {"bookmark", "blurb"}],
        [BaseWork EXCEPT !.tag = "div", !.id = None, !.date = <<>>]}

Pages == UNION {[1..k -> Elements] : k \in 0..MaxElements}

\* position of the next element the selector matches, 0 when none is left
NextWork(page, from) ==
  IF \E i \in (from + 1)..Len(page) : IsWork(page[i])
    THEN CHOOSE i \in (from + 1)..Len(page) :
           IsWork(page[i]) /\ \A j \in (from + 1)..(i - 1) : ~IsWork(page[j])
    ELSE 0

\* the records before the failing listing handed out
OnFailureKeepPrefix(collected, contexts) == Done(collected)

\* line 145, collect::<Result<_>>()? on the first Err of the closure
OnFailure(collected, contexts) == Err(contexts)

\* a page without listing refused
OnExhaustedNonEmpty(collected) ==
  IF collected = <<>> THEN Err(<<"no works">>) ELSE Done(collected)

\* lines 78 and 145, the iterator exhausted: Ok(the records)
OnExhausted(collected) == Done(collected)

\* fetch.rs line 66, serde_json::to_string(work): the line holding the
\* record as JSON
ToJsonLine(work) == [json |-> work]

\* the page handed to search_page_to_works (fetch.rs line 62)
InitScrape ==
  /\ ShipIdle
  /\ MainIdle
  /\ QueryIdle
  /\ body \in Pages
  /\ cursor = 0
  /\ works = <<>>
  /\ page_result = NotReturned
  /\ stdout = <<>>
  /\ fetch_pc = "extract"
  /\ ShipsIdle
  /\ PoolIdle
  /\ IndexIdle

\* scrape.rs lines 79-144, the closure on the next li.work of the page
ExtractWork ==
  /\ fetch_pc = "extract"
  /\ NextWork(body, cursor) # 0
  /\ LET at == NextWork(body, cursor)
         r == WorkOf(body[at])
     IN /\ cursor' = at
        /\ IF r.ok
             THEN /\ works' = Append(works, r.v)
                  /\ UNCHANGED <<page_result, fetch_pc>>
           ELSE IF IsErr(r)
             THEN /\ page_result' = OnFailure(works, r.err)
                  /\ works' = <<>>
                  /\ fetch_pc' = "returned"
           ELSE \* the panic of line 112 unwinds out of search_page_to_works
                /\ works' = <<>>
                /\ fetch_pc' = "panicked"
                /\ UNCHANGED page_result
  /\ UNCHANGED <<shipVars, mainVars, queryVars, body, stdout>>
  /\ UNCHANGED shipsVars
  /\ UNCHANGED poolVars
  /\ UNCHANGED indexVars

\* scrape.rs lines 145-146, no li.work left: the records are returned
CollectWorks ==
  /\ fetch_pc = "extract"
  /\ NextWork(body, cursor) = 0
  /\ page_result' = OnExhausted(works)
  /\ fetch_pc' = "returned"
  /\ UNCHANGED <<shipVars, mainVars, queryVars, body, cursor, works, stdout>>
  /\ UNCHANGED shipsVars
  /\ UNCHANGED poolVars
  /\ UNCHANGED indexVars

\* fetch.rs line 62 and lines 77-80: the `?` ends the closure with the
\* error, find_first logs it and stops
PropagateError ==
  /\ fetch_pc = "returned"
  /\ ~page_result.ok
  /\ fetch_pc' = "stopped on error"
  /\ UNCHANGED <<shipVars, mainVars, queryVars, body, cursor, works,
                 page_result, stdout>>
  /\ UNCHANGED shipsVars
  /\ UNCHANGED poolVars
  /\ UNCHANGED indexVars

\* fetch.rs lines 64-68, one record written as a line
WriteWork ==
  /\ fetch_pc = "returned"
  /\ page_result.ok
  /\ Len(stdout) < Len(page_result.v)
  /\ stdout' = Append(stdout, ToJsonLine(page_result.v[Len(stdout) + 1]))
  /\ UNCHANGED <<shipVars, mainVars, queryVars, body, cursor, works,
                 page_result, fetch_pc>>
  /\ UNCHANGED shipsVars
  /\ UNCHANGED poolVars
  /\ UNCHANGED indexVars

\* fetch.rs lines 70-74 and 81-88: the closure returns Ok, find_first
\* stops on a page without works
PageDone ==
  /\ fetch_pc = "returned"
  /\ page_result.ok
  /\ Len(stdout) = Len(page_result.v)
  /\ fetch_pc' = IF page_result.v = <<>> THEN "stopped on empty page"
                 ELSE "next page"
  /\ UNCHANGED <<shipVars, mainVars, queryVars, body, cursor, works,
                 page_result, stdout>>
  /\ UNCHANGED shipsVars
  /\ UNCHANGED poolVars
  /\ UNCHANGED indexVars

NextScrape == ExtractWork \/ CollectWorks \/ PropagateError \/ WriteWork \/ PageDone

SpecScrape == InitScrape /\ [][NextScrape]_vars

\* ================================================================ search.rs
\* serde_json::Value: null, a string, a number (Number keeps apart the
\* non-negative integers, the negative integers and the floats), an array,
\* an object (a list of (key, value) entries, no key twice)
Null == [t |-> "null"]
JsonString(s) == [t |-> "string", s |-> s]
PosInt(n) == [t |-> "number", n |-> "PosInt", i |-> n]
NegInt(n) == [t |-> "number", n |-> "NegInt", i |-> n]
Float(n) == [t |-> "number", n |-> "Float", i |-> n]
Array(a) == [t |-> "array", a |-> a]
Object(m) == [t |-> "object", m |-> m]

AGGREGATION_KEY == "aggregation_key"

\* Value::get with a string index: the entry of an object, None for a
\* missing key and for a value that is no object
Get(value, key) ==
  IF value.t = "object" /\ \E i \in 1..Len(value.m) : value.m[i][1] = key
  THEN Some(value.m[CHOOSE i \in 1..Len(value.m) : value.m[i][1] = key][2])
  ELSE None

\* Value::as_array
AsArray(value) == IF value.t = "array" THEN Some(value.a) ELSE None

\* Value::as_str
AsStr(value) == IF value.t = "string" THEN Some(value.s) ELSE None

\* every number taken for its integer part
AsU64AnyNumber(value) ==
  IF value.t = "number" THEN Some(value.i) ELSE None

\* Value::as_u64: a number that is a non-negative integer
AsU64(value) ==
  IF value.t = "number" /\ value.n = "PosInt" THEN Some(value.i) ELSE None

\* lines 47-55: Option::context on each step, `?` on each failure
ResponseBuckets(value) ==
  LET aggregations == OkOr(Get(value, "aggregations"), "Response aggregations key") IN
  IF ~aggregations.ok THEN aggregations ELSE
  LET aggregation == OkOr(Get(aggregations.v, AGGREGATION_KEY), "Response aggregation key") IN
  IF ~aggregation.ok THEN aggregation ELSE
  LET found == OkOr(Get(aggregation.v, "buckets"), "Response buckets key") IN
  IF ~found.ok THEN found ELSE
  OkOr(AsArray(found.v), "Response buckets array")

\* lines 58-72, the closure of the map
BucketPair(bucket) ==
  LET key == OkOr(Get(bucket, "key"), "bucket key") IN
  IF ~key.ok THEN key ELSE
  LET name == OkOr(AsStr(key.v), "bucket key string") IN
  IF ~name.ok THEN name ELSE
  LET doc_count == OkOr(Get(bucket, "doc_count"), "bucket doc count") IN
  IF ~doc_count.ok THEN doc_count ELSE
  LET count == OkOr(AsU64(doc_count.v), "bucket doc count integer") IN
  IF ~count.ok THEN count ELSE
  Done(<<name.v, count.v>>)

\* what the index may send for a bucket
BucketNames == {"A/B", "C & D"}
KeyEntries ==
  {<<>>} \cup {<<<<"key", v>>>> : v \in {JsonString(k) : k \in BucketNames} \cup {PosInt(1), Null}}
DocCountEntries ==
  {<<>>} \cup {<<<<"doc_count", v>>>> :
                 v \in {PosInt(n) : n \in 0..MaxCount}
                       \cup {NegInt(0 - 1), Float(2), JsonString("2"), Null}}
BucketValues ==
  {Object(k \o d) : k \in KeyEntries, d \in DocCountEntries}
    \cup {Object(<<<<"doc_count", PosInt(1)>>, <<"key", JsonString("A/B")>>>>),
          Null, JsonString("A/B")}

BucketArrays == UNION {[1..n -> BucketValues] : n \in 0..MaxBuckets}

\* the response around a value that stands for the buckets
ResponseAround(value) ==
  Object(<<<<"took", PosInt(1)>>,
           <<"aggregations",
             Object(<<<<AGGREGATION_KEY,
                        Object(<<<<"doc_count_error_upper_bound", PosInt(0)>>,
                                 <<"buckets", value>>>>)>>>>)>>>>)

Responses ==
  {ResponseAround(Array(a)) : a \in BucketArrays}
    \cup {ResponseAround(Null),
          ResponseAround(Object(<<>>)),
          Null,
          Array(<<>>),
          Object(<<>>),
          Object(<<<<"error", JsonString("index_not_found_exception")>>>>),
          Object(<<<<"aggregations", Null>>>>),
          Object(<<<<"aggregations", Object(<<>>)>>>>),
          Object(<<<<"aggregations", Object(<<<<"other_key", Object(<<>>)>>>>)>>>>),
          Object(<<<<"aggregations", Object(<<<<AGGREGATION_KEY, Null>>>>)>>>>),
          Object(<<<<"aggregations", Object(<<<<AGGREGATION_KEY, Object(<<>>)>>>>)>>>>)}

\* line 46: the body of the response is parsed
InitQuery ==
  /\ ShipIdle
  /\ MainIdle
  /\ ScrapeIdle
  /\ response_body \in Responses
  /\ buckets = <<>>
  /\ pairs = <<>>
  /\ frequencies = NotReturned
  /\ query_pc = "navigate"
  /\ ShipsIdle
  /\ PoolIdle
  /\ IndexIdle

\* lines 47-55
Navigate ==
  /\ query_pc = "navigate"
  /\ LET r == ResponseBuckets(response_body) IN
     IF r.ok
     THEN /\ buckets' = r.v
          /\ query_pc' = "map"
          /\ UNCHANGED frequencies
     ELSE /\ frequencies' = Err(r.err)
          /\ query_pc' = "returned"
          /\ UNCHANGED buckets
  /\ UNCHANGED <<shipVars, mainVars, scrapeVars, response_body, pairs>>
  /\ UNCHANGED shipsVars
  /\ UNCHANGED poolVars
  /\ UNCHANGED indexVars

\* lines 56-73: the closure on the next bucket; collect::<Result<_>> stops
\* at the first Err and drops what it had collected
MapBucket ==
  /\ query_pc = "map"
  /\ Len(pairs) < Len(buckets)
  /\ LET r == BucketPair(buckets[Len(pairs) + 1]) IN
     IF r.ok
     THEN /\ pairs' = Append(pairs, r.v)
          /\ UNCHANGED <<frequencies, query_pc>>
     ELSE /\ pairs' = <<>>
          /\ frequencies' = Err(r.err)
          /\ query_pc' = "returned"
  /\ UNCHANGED <<shipVars, mainVars, scrapeVars, response_body, buckets>>
  /\ UNCHANGED shipsVars
  /\ UNCHANGED poolVars
  /\ UNCHANGED indexVars

\* lines 56, 73: the iterator is exhausted, Ok of the collected pairs
CollectPairs ==
  /\ query_pc = "map"
  /\ Len(pairs) = Len(buckets)
  /\ frequencies' = Done(pairs)
  /\ query_pc' = "returned"
  /\ UNCHANGED <<shipVars, mainVars, scrapeVars, response_body, buckets, pairs>>
  /\ UNCHANGED shipsVars
  /\ UNCHANGED poolVars
  /\ UNCHANGED indexVars

NextQuery == Navigate \/ MapBucket \/ CollectPairs

SpecQuery == InitQuery /\ [][NextQuery]_vars

\* ================================================================ ships.rs
\* str::split(&['/', '&'][..]): the pieces between occurrences of any of
\* the delimiters
RECURSIVE SplitAny(_, _)
SplitAny(s, ds) ==
  IF \E i \in 1..Len(s) : s[i] \in ds
    THEN LET at == CHOOSE i \in 1..Len(s) :
                     s[i] \in ds /\ \A j \in 1..(i - 1) : s[j] \notin ds
         IN <<SubSeq(s, 1, at - 1)>> \o SplitAny(SubSeq(s, at + 1, Len(s)), ds)
    ELSE <<s>>

\* lines 188-217: the tag cut at its first '(', split on both delimiters,
\* the two names trimmed and sorted, the kind read from the cut tag
ShipToCharacters(original_ship) ==
  LET fandom_start == Find(original_ship, "(")
      cut == IF fandom_start # 0
               THEN SubSeq(original_ship, 1, fandom_start - 1)
               ELSE original_ship
      parts == SplitAny(cut, {"/", "&"})
      characters == [i \in 1..Len(parts) |-> Trim(parts[i])]
  IN IF Len(characters) # 2 THEN None
     ELSE IF Contains(cut, "/")
       THEN Some([characters |-> SortUnstable(characters), kind |-> Romantic])
     ELSE IF Contains(cut, "&")
       THEN Some([characters |-> SortUnstable(characters), kind |-> Platonic])
     ELSE None

\* lines 100-105: filter_map on ship_to_characters, filter on the kind
RECURSIVE FilterShips(_, _)
FilterShips(results, kind) ==
  IF results = <<>> THEN <<>>
  ELSE LET parsed_ship == ShipToCharacters(Head(results).tag)
           rest == FilterShips(Tail(results), kind)
       IN IF parsed_ship.some /\ parsed_ship.v.kind = kind
            THEN <<[characters |-> parsed_ship.v.characters,
                    count |-> Head(results).count]>> \o rest
            ELSE rest

\* the key without the count
SortKeyShipOnly(entry) == <<entry.characters, 0>>

\* line 107: the key (ship.0.clone(), u64::MAX - count); the second part
\* is kept as its distance below u64::MAX, which orders the same way
SortKey(entry) == <<entry.characters, 0 - entry.count>>

\* Ord for ((String, String), u64)
KeyLess(k, l) ==
  \/ StrLess(k[1][1], l[1][1])
  \/ k[1][1] = l[1][1] /\ StrLess(k[1][2], l[1][2])
  \/ k[1] = l[1] /\ k[2] < l[2]

\* insertion before the first entry whose key is not smaller
RECURSIVE InsertByKey(_, _)
InsertByKey(x, sorted) ==
  IF sorted = <<>> THEN <<x>>
  ELSE IF ~KeyLess(SortKey(Head(sorted)), SortKey(x)) THEN <<x>> \o sorted
  ELSE <<Head(sorted)>> \o InsertByKey(x, Tail(sorted))

\* line 107: slice::sort_by_key, a stable sort
RECURSIVE SortByKey(_)
SortByKey(v) ==
  IF v = <<>> THEN <<>> ELSE InsertByKey(Head(v), SortByKey(Tail(v)))

\* line 108: Vec::dedup_by_key on the characters: of every run of
\* consecutive entries with the same key the first is kept
RECURSIVE DedupByKey(_)
DedupByKey(v) ==
  IF Len(v) <= 1 THEN v
  ELSE IF v[1].characters = v[2].characters
    THEN DedupByKey(<<v[1]>> \o SubSeq(v, 3, Len(v)))
    ELSE <<v[1]>> \o DedupByKey(Tail(v))

\* lines 116-120: the keys of the HashMap of totals
CharacterKeys(f) == UNION {{f[k].characters[1], f[k].characters[2]} : k \in 1..Len(f)}

\* lines 149-150: the count written to both cells, one after the other
AssignCells(m, one, two, count) ==
  LET m1 == [m EXCEPT ![one][two] = count] IN
  [m1 EXCEPT ![two][one] = count]

\* the relationship tags of the index, as ships.rs has to cope with them
ShipTags ==
  { <<"A", "/", "B">>,                     \* A/B
    <<"B", "/", "A">>,                     \* the same ship, other order
    <<" ", "B", " ", "/", " ", "A", " ">>, \* the same ship, padded
    <<"A", "/", "B", "(", "A">>,           \* the same ship, with a fandom
    <<"A", "/", "A", "B">>,                \* A/AB
    <<"A", "/", "A">>,                     \* one character twice
    <<"A", "&", "B">>,                     \* A & B
    <<"A", "/", "B", "&", "A">>,           \* three characters
    <<"A", "B">> }                         \* no delimiter

ShipResults ==
  UNION {[1..n -> [tag : ShipTags, count : 1..MaxCount]] : n \in 0..MaxBuckets}

\* line 100: relationship_frequencies has returned Ok
InitShips ==
  /\ ShipIdle
  /\ MainIdle
  /\ ScrapeIdle
  /\ QueryIdle
  /\ ship_type \in ShipKind
  /\ ships_results \in ShipResults
  /\ ships_pc = "filter"
  /\ ships_freqs = <<>>
  /\ character_list = <<>>
  /\ ships_index = <<>>
  /\ ships_matrix = <<>>
  /\ ships_idx = 0
  /\ PoolIdle
  /\ IndexIdle

\* lines 100-106
FilterFreqs ==
  /\ ships_pc = "filter"
  /\ ships_freqs' = FilterShips(ships_results, ship_type)
  /\ ships_pc' = "sort"
  /\ UNCHANGED <<ship_type, ships_results, character_list, ships_index,
                 ships_matrix, ships_idx>>
  /\ UNCHANGED <<shipVars, mainVars, scrapeVars, queryVars>>
  /\ UNCHANGED poolVars
  /\ UNCHANGED indexVars

\* line 107
SortFreqs ==
  /\ ships_pc = "sort"
  /\ ships_freqs' = SortByKey(ships_freqs)
  /\ ships_pc' = "dedup"
  /\ UNCHANGED <<ship_type, ships_results, character_list, ships_index,
                 ships_matrix, ships_idx>>
  /\ UNCHANGED <<shipVars, mainVars, scrapeVars, queryVars>>
  /\ UNCHANGED poolVars
  /\ UNCHANGED indexVars

\* lines 108-113
DedupFreqs ==
  /\ ships_pc = "dedup"
  /\ ships_freqs' = DedupByKey(ships_freqs)
  /\ ships_pc' = "characters"
  /\ UNCHANGED <<ship_type, ships_results, character_list, ships_index,
                 ships_matrix, ships_idx>>
  /\ UNCHANGED <<shipVars, mainVars, scrapeVars, queryVars>>
  /\ UNCHANGED poolVars
  /\ UNCHANGED indexVars

\* lines 115-133: the names in the order the HashMap hands out its keys,
\* sorted; character_index; the matrix of zeroes
ListCharacters ==
  /\ ships_pc = "characters"
  /\ \E order \in IterationOrders(CharacterKeys(ships_freqs)) :
       /\ character_list' = SortUnstable(order)
       /\ ships_index' = CharacterIndex(character_list')
       /\ ships_matrix' = Zeroes(Len(character_list'))
  /\ ships_idx' = 1
  /\ ships_pc' = "matrix"
  /\ UNCHANGED <<ship_type, ships_results, ships_freqs>>
  /\ UNCHANGED <<shipVars, mainVars, scrapeVars, queryVars>>
  /\ UNCHANGED poolVars
  /\ UNCHANGED indexVars

\* lines 134-151, one iteration of the loop over freqs
AssignShip ==
  /\ ships_pc = "matrix"
  /\ ships_idx <= Len(ships_freqs)
  /\ LET characters == ships_freqs[ships_idx].characters
         count == ships_freqs[ships_idx].count
     IN IF /\ characters[1] \in DOMAIN ships_index
           /\ characters[2] \in DOMAIN ships_index
          THEN /\ ships_matrix' = AssignCells(ships_matrix, ships_index[characters[1]],
                                              ships_index[characters[2]], count)
               /\ ships_idx' = ships_idx + 1
               /\ ships_pc' = ships_pc
          ELSE \* expect("character to have index")
               /\ ships_pc' = "panic"
               /\ UNCHANGED <<ships_matrix, ships_idx>>
  /\ UNCHANGED <<ship_type, ships_results, ships_freqs, character_list, ships_index>>
  /\ UNCHANGED <<shipVars, mainVars, scrapeVars, queryVars>>
  /\ UNCHANGED poolVars
  /\ UNCHANGED indexVars

\* lines 153-164, the loop finished: Chord, Ok(())
RenderShips ==
  /\ ships_pc = "matrix"
  /\ ships_idx > Len(ships_freqs)
  /\ ships_pc' = "done"
  /\ UNCHANGED <<ship_type, ships_results, ships_freqs, character_list,
                 ships_index, ships_matrix, ships_idx>>
  /\ UNCHANGED <<shipVars, mainVars, scrapeVars, queryVars>>
  /\ UNCHANGED poolVars
  /\ UNCHANGED indexVars

NextShips ==
  FilterFreqs \/ SortFreqs \/ DedupFreqs \/ ListCharacters \/ AssignShip \/ RenderShips

SpecShips == InitShips /\ [][NextShips]_vars

\* ===================================================== fetch.rs, the pool
\* The closure of lines 58-75 runs on the threads of the rayon pool, one
\* page per call.  What a page gives is its number of records; what is
\* written is kept per write_all call.
\* the lock taken whoever holds it
HandleFreeAlways(owner) == TRUE

\* line 64: Stdout::lock blocks while another thread holds the lock
HandleFree(owner) == owner = 0

\* lines 66-67: the n-th write_all of the loop over the works of a page
Written(page, n) ==
  [page |-> page,
   work |-> (n + 1) \div 2,
   bytes |-> IF n % 2 = 1 THEN "json" ELSE "newline"]

\* lines 40-56: the pool is built, no page started
InitPool ==
  /\ ShipIdle
  /\ MainIdle
  /\ ScrapeIdle
  /\ QueryIdle
  /\ ShipsIdle
  /\ threads = [t \in 1..MaxThreads |-> IdleThread]
  /\ taken = {}
  /\ handle = 0
  /\ IndexIdle

\* lines 58-62: a free worker is given a page that no worker had; the page
\* is fetched and read, search_page_to_works returns its works
ProcessPage ==
  /\ \E t \in 1..MaxThreads, page_number \in (1..MaxPages) \ taken, n \in 0..MaxElements :
       /\ threads[t].pc = "idle"
       /\ taken' = taken \cup {page_number}
       /\ threads' = [threads EXCEPT ![t] =
                        [pc |-> "lock", page |-> page_number,
                         works |-> n, written |-> 0]]
  /\ UNCHANGED <<handle, stdout>>
  /\ UNCHANGED <<body, cursor, works, page_result, fetch_pc>>
  /\ UNCHANGED <<shipVars, mainVars, queryVars, shipsVars>>
  /\ UNCHANGED indexVars

\* lines 60-62: the same, the request or the extraction fails: `?`
FailPage ==
  /\ \E t \in 1..MaxThreads, page_number \in (1..MaxPages) \ taken :
       /\ threads[t].pc = "idle"
       /\ taken' = taken \cup {page_number}
  /\ UNCHANGED <<threads, handle, stdout>>
  /\ UNCHANGED <<body, cursor, works, page_result, fetch_pc>>
  /\ UNCHANGED <<shipVars, mainVars, queryVars, shipsVars>>
  /\ UNCHANGED indexVars

\* line 64
LockStdout ==
  /\ \E t \in 1..MaxThreads :
       /\ threads[t].pc = "lock"
       /\ HandleFree(handle)
       /\ handle' = t
       /\ threads' = [threads EXCEPT ![t].pc = "write"]
  /\ UNCHANGED <<taken, stdout>>
  /\ UNCHANGED <<body, cursor, works, page_result, fetch_pc>>
  /\ UNCHANGED <<shipVars, mainVars, queryVars, shipsVars>>
  /\ UNCHANGED indexVars

\* lines 65-68, one write_all
WriteAll ==
  /\ \E t \in 1..MaxThreads :
       /\ threads[t].pc = "write"
       /\ threads[t].written < 2 * threads[t].works
       /\ stdout' = Append(stdout, Written(threads[t].page, threads[t].written + 1))
       /\ threads' = [threads EXCEPT ![t].written = @ + 1]
  /\ UNCHANGED <<taken, handle>>
  /\ UNCHANGED <<body, cursor, works, page_result, fetch_pc>>
  /\ UNCHANGED <<shipVars, mainVars, queryVars, shipsVars>>
  /\ UNCHANGED indexVars

\* lines 70-75: the loop is over, the sleep, the handle dropped on return
ReturnPage ==
  /\ \E t \in 1..MaxThreads :
       /\ threads[t].pc = "write"
       /\ threads[t].written = 2 * threads[t].works
       /\ threads' = [threads EXCEPT ![t] = IdleThread]
  /\ handle' = 0
  /\ UNCHANGED <<taken, stdout>>
  /\ UNCHANGED <<body, cursor, works, page_result, fetch_pc>>
  /\ UNCHANGED <<shipVars, mainVars, queryVars, shipsVars>>
  /\ UNCHANGED indexVars

NextPool == ProcessPage \/ FailPage \/ LockStdout \/ WriteAll \/ ReturnPage

SpecPool == InitPool /\ [][NextPool]_vars

\* ================================================================ index.rs
\* A line of the input file is a Work record as JSON, a text that is no
\* Work record, or a line that cannot be read.  The record of line n is
\* known by n.
Lines == {"work", "not a work", "unreadable"}
Files == UNION {[1..n -> Lines] : n \in 0..MaxLines}

\* line 99: the line read and deserialized
ReadWork(n, line) ==
  IF line = "unreadable" THEN Err(<<"input line">>)
  ELSE IF line = "not a work" THEN Err(<<"line json">>)
  ELSE Done(n)

\* a chunk closed after its first line
ChunkEndsAfterOne(n, size, left) == n >= 1

\* line 90, itertools chunks: a chunk ends after chunk_size lines, or with
\* the file
ChunkEnds(n, size, left) == n = size \/ left = 0

\* line 89: the file is open
InitIndex ==
  /\ ShipIdle
  /\ MainIdle
  /\ ScrapeIdle
  /\ QueryIdle
  /\ ShipsIdle
  /\ PoolIdle
  /\ file \in Files
  /\ chunk_size \in 0..MaxChunkSize
  /\ lines_read = 0
  /\ ops = <<>>
  /\ bulk = <<>>
  /\ index_pc = "chunks"
  /\ index_result = NotReturned

\* line 90: chunks(opt.chunk_size) asserts that the size is not 0
Chunks ==
  /\ index_pc = "chunks"
  /\ index_pc' = IF chunk_size = 0 THEN "panicked" ELSE "next chunk"
  /\ UNCHANGED <<file, chunk_size, lines_read, ops, bulk, index_result>>
  /\ UNCHANGED <<shipVars, mainVars, scrapeVars, queryVars, shipsVars, poolVars>>

\* lines 90-96: there is a line left, a chunk starts
StartChunk ==
  /\ index_pc = "next chunk"
  /\ lines_read < Len(file)
  /\ ops' = <<>>
  /\ index_pc' = "lines"
  /\ UNCHANGED <<file, chunk_size, lines_read, bulk, index_result>>
  /\ UNCHANGED <<shipVars, mainVars, scrapeVars, queryVars, shipsVars, poolVars>>

\* lines 97-102: the next line of the chunk
ReadLine ==
  /\ index_pc = "lines"
  /\ ~ChunkEnds(Len(ops), chunk_size, Len(file) - lines_read)
  /\ LET work == ReadWork(lines_read + 1, file[lines_read + 1]) IN
     IF work.ok
       THEN /\ ops' = Append(ops, work.v)
            /\ UNCHANGED <<index_pc, index_result>>
       ELSE /\ index_result' = Err(work.err)
            /\ index_pc' = "returned"
            /\ UNCHANGED ops
  /\ lines_read' = lines_read + 1
  /\ UNCHANGED <<file, chunk_size, bulk>>
  /\ UNCHANGED <<shipVars, mainVars, scrapeVars, queryVars, shipsVars, poolVars>>

\* lines 104-108: the chunk is read, its bulk request is sent
SendBulk ==
  /\ index_pc = "lines"
  /\ ChunkEnds(Len(ops), chunk_size, Len(file) - lines_read)
  /\ bulk' = Append(bulk, ops)
  /\ index_pc' = "next chunk"
  /\ UNCHANGED <<file, chunk_size, lines_read, ops, index_result>>
  /\ UNCHANGED <<shipVars, mainVars, scrapeVars, queryVars, shipsVars, poolVars>>

\* line 108: the request does not get through, `?`
SendFails ==
  /\ index_pc = "lines"
  /\ ChunkEnds(Len(ops), chunk_size, Len(file) - lines_read)
  /\ index_result' = Err(<<"send">>)
  /\ index_pc' = "returned"
  /\ UNCHANGED <<file, chunk_size, lines_read, ops, bulk>>
  /\ UNCHANGED <<shipVars, mainVars, scrapeVars, queryVars, shipsVars, poolVars>>

\* line 111: no line left, Ok(())
Finish ==
  /\ index_pc = "next chunk"
  /\ lines_read = Len(file)
  /\ index_result' = Done(<<>>)
  /\ index_pc' = "returned"
  /\ UNCHANGED <<file, chunk_size, lines_read, ops, bulk>>
  /\ UNCHANGED <<shipVars, mainVars, scrapeVars, queryVars, shipsVars, poolVars>>

NextIndex == Chunks \/ StartChunk \/ ReadLine \/ SendBulk \/ SendFails \/ Finish

SpecIndex == InitIndex /\ [][NextIndex]_vars

\* ================================================================ claims
\* number of candidates a tag splits into: one more than the number of
\* occurrences of its delimiter ('/' when present, else '&')
Candidates(tag) ==
  LET d == IF \E i \in 1..Len(tag) : tag[i] = "/" THEN "/" ELSE "&"
  IN Cardinality({i \in 1..Len(tag) : tag[i] = d}) + 1

HasSlash(tag) == \E i \in 1..Len(tag) : tag[i] = "/"
HasAmpersand(tag) == \E i \in 1..Len(tag) : tag[i] = "&"

\* the kind a tag asks for, by the priority of '/' over '&'
KindOf(tag) == IF HasSlash(tag) THEN Romantic ELSE Platonic

\* a tag the aggregation has to drop under the requested kind
MustDrop(tag, kind) ==
  \/ ~HasSlash(tag) /\ ~HasAmpersand(tag)
  \/ Candidates(tag) # 2
  \/ KindOf(tag) # kind

MatrixBuilt == pc \in {"accumulate", "done"}

\* the entries of freqs the accumulation loop has been through
Accumulated == 1..(IF pc = "done" THEN Len(freqs) ELSE idx - 1)

RECURSIVE SumCounts(_)
SumCounts(K) ==
  IF K = {} THEN 0
  ELSE LET k == CHOOSE x \in K : TRUE IN freqs[k].count + SumCounts(K \ {k})

PairOf(k) == {freqs[k].ship.characters[c] : c \in 1..Len(freqs[k].ship.characters)}

\* C1: every off-diagonal cell of the matrix is the sum of the counts of
\* the retained tags (those the loop has been through) whose canonical pair
\* is the pair of the cell's two names: duplicates are summed, none is
\* overwritten.
C1_Summation ==
  MatrixBuilt =>
    \A i \in 1..Len(names), j \in 1..Len(names) :
      i # j =>
        matrix[i][j] =
          SumCounts({k \in Accumulated : PairOf(k) = {names[i], names[j]}})

\* two retained tags of the same pair with different counts, summed in
\* both cells
C1_Witness ==
  /\ pc = "done"
  /\ Len(freqs) = 2
  /\ freqs[1].ship = freqs[2].ship
  /\ freqs[1].count = 1 /\ freqs[2].count = 2
  /\ Len(names) = 2
  /\ matrix[1][2] = 3 /\ matrix[2][1] = 3

\* C2: the matrix is square, names.len() x names.len(), and symmetric
\* after every iteration of the accumulation loop and at the end.
C2_SquareSymmetric ==
  MatrixBuilt =>
    /\ Len(matrix) = Len(names)
    /\ \A i \in 1..Len(matrix) : Len(matrix[i]) = Len(names)
    /\ \A i \in 1..Len(names), j \in 1..Len(names) : matrix[i][j] = matrix[j][i]

\* a matrix of three names with a non-zero cell off the diagonal, in the
\* middle of the loop
C2_Witness ==
  /\ pc = "accumulate"
  /\ idx = 2 /\ Len(freqs) = 2
  /\ Len(names) >= 3
  /\ \E i \in 1..Len(names), j \in 1..Len(names) : i # j /\ matrix[i][j] > 0

\* C3: the diagonal of the matrix is all zero, also for tags whose two
\* names are the same string.
C3_DiagonalZero ==
  MatrixBuilt => \A i \in 1..Len(names) : matrix[i][i] = 0

\* C4: two tags that differ only in the order of the names around the
\* delimiter or in whitespace around the names parse to the same result.
C4_OrderWhitespace ==
  (/\ parsed # NotParsed
   /\ parsedOther # NotParsed
   /\ edits \subseteq {"reorder", "pad"})
    => parsedOther = parsed

\* "A/B" against a padded and reordered spelling of it
C4_Witness ==
  /\ edits = {"reorder", "pad"}
  /\ parsed.ok /\ parsedOther.ok
  /\ Len(parsed.ship.characters) = 2
  /\ parsed.ship.characters[1] # parsed.ship.characters[2]
  /\ parsed.ship.characters[1] # <<>>
  /\ Parts(other)[1] # Parts(ship)[1]
  /\ Len(other) = Len(ship) + 2

\* C5: a fandom qualifier after a name, opened by '(', is cut from every
\* candidate separately: the tag parses as it does without the qualifiers.
C5_FandomStripped ==
  (/\ parsed # NotParsed
   /\ parsedOther # NotParsed
   /\ "qualify" \in edits)
    => parsedOther = parsed

\* "A/B" against "A(/B(": a qualifier on each of the two names
C5_Witness ==
  /\ edits = {"qualify"}
  /\ parsed.ok /\ parsedOther.ok
  /\ ~ Contains(ship, "(")
  /\ Len(Parts(other)) = 2
  /\ \A i \in 1..2 : Contains(Parts(other)[i], "(")
  /\ parsed.ship.characters[1] # <<>>
  /\ parsed.ship.characters[1] # parsed.ship.characters[2]

\* C6: in the aggregation, a tag that does not split into exactly two
\* candidates fails with the arity failure; main keeps running, the tag
\* adds no entry to freqs, and every entry of freqs has two characters.
C6_ArityRejected ==
  /\ [](pc = "filter" /\ (HasSlash(last.tag) \/ HasAmpersand(last.tag))
          /\ Candidates(last.tag) # 2
        => last.result = Err(UnsupportedArity))
  /\ [](\A k \in 1..Len(freqs) : Len(freqs[k].ship.characters) = 2)
  /\ [][pc = "filter" /\ (HasSlash(last.tag) \/ HasAmpersand(last.tag))
          /\ Candidates(last.tag) # 2
        => freqs' = freqs /\ pc' = "filter_map"]_vars

\* a tag of three candidates was rejected and a later tag was retained
C6_Witness ==
  /\ pc = "filter"
  /\ last.n = 2
  /\ Candidates(last.tag) = 3
  /\ last.result = Err(UnsupportedArity)
  /\ Len(freqs) = 1

\* C7: a tag with both '/' and '&' is Romantic and split on '/'; a tag
\* with '&' and no '/' is Platonic.
C7_KindPriority ==
  parsed # NotParsed =>
    /\ HasSlash(ship) /\ HasAmpersand(ship) =>
         /\ parsed.ok
         /\ parsed.ship.kind = Romantic
         /\ Len(parsed.ship.characters) = Candidates(ship)
    /\ ~HasSlash(ship) /\ HasAmpersand(ship) =>
         parsed.ok /\ parsed.ship.kind = Platonic

\* "A/B&" and the like: both delimiters, parsed as Romantic, '&' in a name
C7_Witness ==
  /\ HasSlash(ship) /\ HasAmpersand(ship)
  /\ parsed.ok
  /\ parsed.ship.kind = Romantic
  /\ \E i \in 1..Len(parsed.ship.characters) :
       Contains(parsed.ship.characters[i], "&")

\* C8: a tag with neither '/' nor '&' fails with the unknown-kind failure
\* and gives no Ship; a tag with one of them never fails with it.
C8_UnknownKind ==
  parsed # NotParsed =>
    IF ~HasSlash(ship) /\ ~HasAmpersand(ship)
      THEN parsed = Err(UnknownShipKind)
      ELSE parsed.ok

\* a tag of letters only was refused
C8_Witness ==
  /\ parsed = Err(UnknownShipKind)
  /\ Len(ship) >= 2
  /\ \A i \in 1..Len(ship) : ship[i] \in {"A", "B"}

\* C9: a tag that fails to parse or is of the other kind is dropped and
\* the aggregation goes on: freqs is unchanged by it, only retained ships
\* are in freqs, names holds no name but those of freqs, and main never
\* panics.
C9_DroppedAndContinue ==
  /\ [](pc # "panic")
  /\ [](\A k \in 1..Len(freqs) :
          /\ freqs[k].ship.kind = opt_ship_kind
          /\ Len(freqs[k].ship.characters) = 2)
  /\ [](MatrixBuilt =>
          \A i \in 1..Len(names) : \E k \in 1..Len(freqs) : names[i] \in PairOf(k))
  /\ [][pc = "filter" /\ MustDrop(last.tag, opt_ship_kind)
        => freqs' = freqs /\ pc' = "filter_map"]_vars

\* of two tags one was dropped and one retained, and the run ended with
\* the retained tag alone in names and matrix
C9_Witness ==
  /\ pc = "done"
  /\ last.n = 2
  /\ Len(freqs) = 1
  /\ freqs[1].count > 0
  /\ Len(names) = 2
  /\ matrix[1][2] = freqs[1].count

\* C10: names is strictly increasing, holds exactly the names of the
\* retained ships, and index i of character_index and of the matrix is
\* names[i].
C10_NamesSorted ==
  MatrixBuilt =>
    /\ \A i \in 1..(Len(names) - 1) : StrLess(names[i], names[i + 1])
    /\ {names[i] : i \in 1..Len(names)} = UNION {PairOf(k) : k \in 1..Len(freqs)}
    /\ DOMAIN character_index = {names[i] : i \in 1..Len(names)}
    /\ \A i \in 1..Len(names) : character_index[names[i]] = i
    /\ Len(matrix) = Len(names)

\* four names from two ships
C10_Witness ==
  /\ pc = "done"
  /\ Len(names) = 4
  /\ Len(freqs) = 2

\* ------------------------------------------------ the page, as the claims
\* see it
\* a work listing: an li element of class work
Listing(el) == el.tag = "li" /\ "work" \in el.class

\* positions of the work listings of the page, in page order
ListingsOf(page) ==
  LET F[i \in 0..Len(page)] ==
        IF i = 0 THEN <<>>
        ELSE IF Listing(page[i]) THEN Append(F[i - 1], i) ELSE F[i - 1]
  IN F[Len(page)]

HasWorkPrefix(attr) ==
  Len(attr) >= 5 /\ [i \in 1..5 |-> attr[i]] = <<"w", "o", "r", "k", "_">>

IdWellFormed(el) == el.id.some /\ HasWorkPrefix(el.id.v)
TitlePresent(el) == el.heading # <<>> /\ el.heading[1].some
AllHaveText(matches) == \A i \in 1..Len(matches) : matches[i].some
TextsOf(matches) == [i \in 1..Len(matches) |-> matches[i].v]
DatePresent(el) == el.date # <<>> /\ el.date[1].some
DateWellFormed(el) == DatePresent(el) /\ el.date[1].v = <<"05", "Dec", "2020">>

\* the mandatory fields before the date are there
UpToDateFine(el) ==
  /\ IdWellFormed(el)
  /\ TitlePresent(el)
  /\ AllHaveText(el.relationships)
  /\ AllHaveText(el.characters)
  /\ AllHaveText(el.freeforms)

\* the closure has run on the element at the cursor
Reached == cursor > 0

\* search_page_to_works has returned an error value
ReturnedErr == page_result # NotReturned /\ ~page_result.ok

\* search_page_to_works is over, by a return or by a panic
ExtractionOver == fetch_pc # "extract"

\* a statistic present with a text that is no number: no digit in it, or a
\* character that is neither digit, separator nor sign
MalformedNumber(matches) ==
  /\ matches # <<>>
  /\ matches[1].some
  /\ \/ \A i \in 1..Len(matches[1].v) : matches[1].v[i] \notin Digits
     \/ \E i \in 1..Len(matches[1].v) : matches[1].v[i] \notin Digits \cup {",", "+"}

\* the record made of the listing at the cursor, when one was made
LastWork == works[Len(works)]

\* C11: a listing without id attribute, or with an id that does not start
\* with "work_", fails the page with an error value that names the id: no
\* panic, no record, no defaulted id; the id of every record is the
\* attribute without the prefix.
C11_IdRequired ==
  /\ Reached /\ ~body[cursor].id.some =>
       page_result = Err(<<"work to have id">>)
  /\ Reached /\ body[cursor].id.some /\ ~HasWorkPrefix(body[cursor].id.v) =>
       page_result = Err(<<"work id to have prefix">>)
  /\ \A k \in 1..Len(works) :
       LET el == body[ListingsOf(body)[k]] IN
       /\ IdWellFormed(el)
       /\ works[k].id = SubSeq(el.id.v, 6, Len(el.id.v))

\* a record was extracted, then a listing with the id "7" failed the page
C11_Witness ==
  /\ fetch_pc = "stopped on error"
  /\ cursor = 2
  /\ body[1].id = Some(<<"w", "o", "r", "k", "_", "8">>)
  /\ body[2].id = Some(<<"7">>)
  /\ page_result = Err(<<"work id to have prefix">>)
  /\ stdout = <<>>

\* C12: a listing whose date element is missing, has no text or has a text
\* of another format than "05 Dec 2020" fails the page with an error value
\* that names the date.
C12_DateError ==
  Reached /\ UpToDateFine(body[cursor]) /\ ~DateWellFormed(body[cursor]) =>
    /\ fetch_pc # "panicked"
    /\ ReturnedErr
    /\ Head(page_result.err) = "date"

\* C13: when the extraction of one listing fails, search_page_to_works
\* returns a failure for the page and no record of the page is written.
C13_AllOrNothing ==
  (/\ Reached
   /\ ExtractionOver
   /\ ~(UpToDateFine(body[cursor]) /\ DateWellFormed(body[cursor])))
    => ReturnedErr /\ stdout = <<>>

\* C14: a statistic that is present with a text that is no number fails
\* the page; it is not turned into 0.
C14_MalformedNumber ==
  (/\ Reached
   /\ UpToDateFine(body[cursor]) /\ DateWellFormed(body[cursor])
   /\ \/ MalformedNumber(body[cursor].words)
      \/ MalformedNumber(body[cursor].kudos)
      \/ MalformedNumber(body[cursor].hits))
    => ReturnedErr

\* C15: in a record, a counter without element is 0, a language without
\* element is "", and a counter text with separators is read without them:
\* "1,234" is 1234.
C15_SoftOptional ==
  \A k \in 1..Len(works) :
    LET el == body[ListingsOf(body)[k]] IN
    /\ el.words = <<>> => works[k].words = 0
    /\ el.kudos = <<>> => works[k].kudos = 0
    /\ el.hits = <<>> => works[k].hits = 0
    /\ el.language = <<>> => works[k].language = ""
    /\ el.words = <<Some(<<"1", ",", "2", "3", "4">>)>> => works[k].words = 1234
    /\ el.kudos = <<Some(<<"1", ",", "2", "3", "4">>)>> => works[k].kudos = 1234
    /\ el.kudos = <<Some(<<"1", "2">>)>> => works[k].kudos = 12

\* a page of two records: one without kudos element, one with "1,234"
C15_Witness ==
  /\ fetch_pc = "next page"
  /\ Len(works) = 2
  /\ body[1].kudos = <<>> /\ works[1].kudos = 0
  /\ body[2].kudos = <<Some(<<"1", ",", "2", "3", "4">>)>> /\ works[2].kudos = 1234
  /\ Len(stdout) = 2

\* C16: search_page_to_works returns one record per work listing, in page
\* order, the fields of record k read from listing k.
C16_OnePerListing ==
  /\ Len(works) <= Len(ListingsOf(body))
  /\ page_result.ok => page_result.v = works /\ Len(works) = Len(ListingsOf(body))
  /\ \A k \in 1..Len(works) :
       LET el == body[ListingsOf(body)[k]] IN
       /\ works[k].id = SubSeq(el.id.v, 6, Len(el.id.v))
       /\ works[k].title = el.heading[1].v
       /\ works[k].relationships = TextsOf(el.relationships)
       /\ works[k].characters = TextsOf(el.characters)
       /\ works[k].freeforms = TextsOf(el.freeforms)
       /\ works[k].date = [day |-> 5, month |-> 12, year |-> 2020]

\* the listing work_8 before the listing work_7: two records, in page
\* order
C16_Witness ==
  /\ page_result.ok
  /\ ListingsOf(body) = <<1, 2>>
  /\ Len(page_result.v) = 2
  /\ page_result.v[1].id = <<"8">>
  /\ page_result.v[2].id = <<"7">>

\* C17: a page without work listing gives the empty sequence, not an
\* error, whatever else is on the page.
C17_EmptyPage ==
  ExtractionOver /\ ListingsOf(body) = <<>> => page_result = Done(<<>>)

\* a page with elements but no listing: the empty sequence, fetch stops
C17_Witness ==
  /\ Len(body) = 2
  /\ ListingsOf(body) = <<>>
  /\ page_result = Done(<<>>)
  /\ fetch_pc = "stopped on empty page"

\* C18: a listing with a title link and no author link gives a record
\* with the author unset; the listing and the page do not fail for it.
C18_AuthorOptional ==
  (/\ Reached
   /\ UpToDateFine(body[cursor]) /\ DateWellFormed(body[cursor])
   /\ Len(body[cursor].heading) = 1)
    => /\ fetch_pc # "panicked"
       /\ ~ReturnedErr
       /\ Len(works) = Len(ListingsOf(SubSeq(body, 1, cursor)))
       /\ LastWork.title = body[cursor].heading[1].v
       /\ LastWork.author = None

\* the page of one listing without author, returned
C18_Witness ==
  /\ page_result.ok
  /\ Len(page_result.v) = 1
  /\ body[cursor].heading = <<Some("Title")>>
  /\ page_result.v[1].author = None
  /\ page_result.v[1].title = "Title"

\* C19: a tag list of a record is the texts of the matching elements in
\* page order, empty when there is none; the list fails the extraction if
\* and only if one of its elements has no text.
C19_TagLists ==
  /\ \A k \in 1..Len(works) :
       LET el == body[ListingsOf(body)[k]] IN
       /\ works[k].relationships = TextsOf(el.relationships)
       /\ works[k].characters = TextsOf(el.characters)
       /\ works[k].freeforms = TextsOf(el.freeforms)
  /\ Reached /\ IdWellFormed(body[cursor]) /\ TitlePresent(body[cursor]) =>
       LET el == body[cursor] IN
       /\ ~AllHaveText(el.relationships)
            <=> page_result = Err(<<"relationships", "element to have text">>)
       /\ AllHaveText(el.relationships) =>
            (~AllHaveText(el.characters)
               <=> page_result = Err(<<"characters", "element to have text">>))
       /\ AllHaveText(el.relationships) /\ AllHaveText(el.characters) =>
            (~AllHaveText(el.freeforms)
               <=> page_result = Err(<<"freeforms", "element to have text">>))

\* a relationship tag without text after one with text failed the page
C19_Witness ==
  /\ Reached
  /\ body[cursor].relationships = <<Some("A/B"), None>>
  /\ page_result = Err(<<"relationships", "element to have text">>)
  /\ fetch_pc = "stopped on error"

\* ------------------------------------------------ the response, as the
\* claim sees it
HasEntry(value, key) ==
  value.t = "object" /\ \E i \in 1..Len(value.m) : value.m[i][1] = key
EntryOf(value, key) ==
  value.m[CHOOSE i \in 1..Len(value.m) : value.m[i][1] = key][2]

\* the response has the path aggregations / aggregation_key / buckets
\* to an array
HasBucketsArray(value) ==
  /\ HasEntry(value, "aggregations")
  /\ HasEntry(EntryOf(value, "aggregations"), "aggregation_key")
  /\ HasEntry(EntryOf(EntryOf(value, "aggregations"), "aggregation_key"), "buckets")
  /\ EntryOf(EntryOf(EntryOf(value, "aggregations"), "aggregation_key"), "buckets").t = "array"
BucketsArrayOf(value) ==
  EntryOf(EntryOf(EntryOf(value, "aggregations"), "aggregation_key"), "buckets").a

\* a bucket with a string key and a non-negative integer doc_count
BucketWellShaped(bucket) ==
  /\ HasEntry(bucket, "key")
  /\ EntryOf(bucket, "key").t = "string"
  /\ HasEntry(bucket, "doc_count")
  /\ EntryOf(bucket, "doc_count").t = "number"
  /\ EntryOf(bucket, "doc_count").n = "PosInt"

ResponseWellShaped(value) ==
  /\ HasBucketsArray(value)
  /\ \A i \in 1..Len(BucketsArrayOf(value)) : BucketWellShaped(BucketsArrayOf(value)[i])

\* C20: ship_frequencies returns an error and no list when the response
\* has not the path aggregations / aggregation_key / buckets to an array,
\* or when one bucket has not a string key and a non-negative integer
\* doc_count; otherwise it returns the pair (key, doc_count) of each
\* bucket, in bucket order.
C20_QueryShape ==
  query_pc = "returned" =>
    IF ResponseWellShaped(response_body)
    THEN LET a == BucketsArrayOf(response_body) IN
         frequencies =
           Done([i \in 1..Len(a) |->
                   <<EntryOf(a[i], "key").s, EntryOf(a[i], "doc_count").i>>])
    ELSE /\ frequencies # NotReturned
         /\ ~frequencies.ok
         /\ "v" \notin DOMAIN frequencies
         /\ pairs = <<>>

\* a well-shaped bucket, then one with a negative doc_count: the error, and
\* nothing of the first bucket
C20_Witness ==
  /\ query_pc = "returned"
  /\ Len(buckets) = 2
  /\ BucketWellShaped(buckets[1])
  /\ HasEntry(buckets[2], "key")
  /\ HasEntry(buckets[2], "doc_count")
  /\ EntryOf(buckets[2], "doc_count").t = "number"
  /\ EntryOf(buckets[2], "doc_count").n = "NegInt"
  /\ frequencies = Err(<<"bucket doc count integer">>)

\* ------------------------------------------------ the Ship, as the claim
\* sees it
\* the delimiter that goes with a kind
DelimiterOf(kind) == IF kind = "Romantic" THEN "/" ELSE "&"

NameClean(name, kind) ==
  /\ \A i \in 1..Len(name) : name[i] # "(" /\ name[i] # DelimiterOf(kind)
  /\ name # <<>> => name[1] # " " /\ name[Len(name)] # " "

ShipCanonical(result) ==
  result.ok =>
    LET characters == result.ship.characters IN
    /\ \A i \in 1..Len(characters) : NameClean(characters[i], result.ship.kind)
    /\ \A i \in 1..(Len(characters) - 1) :
         characters[i] = characters[i + 1] \/ StrLess(characters[i], characters[i + 1])

\* C21: in every Ship that Ship::from_str returns, no name holds '(' or the
\* delimiter of the tag, no name starts or ends with whitespace, and the
\* names are in non-decreasing order.
C21_ShipCanonical == ShipCanonical(parsed) /\ ShipCanonical(parsedOther)

\* "B /": the names "" and "B", put in order, one of them empty, the
\* whitespace after "B" gone
C21_Witness ==
  /\ parsed.ok
  /\ ship = <<"B", " ", "/">>
  /\ parsed.ship.kind = "Romantic"
  /\ parsed.ship.characters = << <<>>, <<"B">> >>

\* ------------------------------------------------ the ships binary, as
\* the claim sees it
\* the entries of the wanted kind, before sort and dedup
WantedShips == FilterShips(ships_results, ship_type)

\* the highest count among the entries of a pair
HighestCount(characters) ==
  LET counts == {WantedShips[k].count :
                   k \in {n \in 1..Len(WantedShips) : WantedShips[n].characters = characters}}
  IN CHOOSE c \in counts : \A d \in counts : d <= c

\* position of a name in character_list
ListIndex(name) == CHOOSE i \in 1..Len(character_list) : character_list[i] = name

Deduplicated == ships_pc \in {"characters", "matrix", "done"}

\* C22: after line 108 every pair of characters is once in freqs, with the
\* highest count of its duplicates; at the end the two cells of a pair hold
\* that count, the counts of duplicates are not summed, and every other
\* cell is zero.
C22_DedupHighest ==
  /\ Deduplicated =>
       /\ \A i, j \in 1..Len(ships_freqs) :
            ships_freqs[i].characters = ships_freqs[j].characters => i = j
       /\ {ships_freqs[k].characters : k \in 1..Len(ships_freqs)}
            = {WantedShips[k].characters : k \in 1..Len(WantedShips)}
       /\ \A k \in 1..Len(ships_freqs) :
            ships_freqs[k].count = HighestCount(ships_freqs[k].characters)
  /\ ships_pc = "done" =>
       /\ \A k \in 1..Len(ships_freqs) :
            LET one == ListIndex(ships_freqs[k].characters[1])
                two == ListIndex(ships_freqs[k].characters[2])
            IN /\ ships_matrix[one][two] = HighestCount(ships_freqs[k].characters)
               /\ ships_matrix[two][one] = HighestCount(ships_freqs[k].characters)
       /\ \A i, j \in 1..Len(character_list) :
            (\A k \in 1..Len(ships_freqs) :
               {character_list[i], character_list[j]}
                 # {ships_freqs[k].characters[1], ships_freqs[k].characters[2]})
              => ships_matrix[i][j] = 0

\* "A/B" with count 1 before "B/A" with count 2: one entry, the cells 2
C22_Witness ==
  /\ ships_pc = "done"
  /\ Len(ships_results) = 2
  /\ ships_results[1] = [tag |-> <<"A", "/", "B">>, count |-> 1]
  /\ ships_results[2] = [tag |-> <<"B", "/", "A">>, count |-> 2]
  /\ Len(ships_freqs) = 1
  /\ ships_matrix = << <<0, 2>>, <<2, 0>> >>

\* ------------------------------------------------ standard output, as the
\* claim sees it
\* the positions of stdout written for a page
PositionsOf(page) == {i \in 1..Len(stdout) : stdout[i].page = page}

\* C23: what is written for one page is one block of stdout: no write of
\* another page lies between two writes of the page, and the block is the
\* works of the page in order, each followed by its newline.
C23_NoInterleaving ==
  \A page \in 1..MaxPages :
    LET at == PositionsOf(page) IN
    /\ \A i, j \in at : \A k \in i..j : k \in at
    /\ \A i \in at :
         LET n == Cardinality({j \in at : j <= i}) IN
         /\ stdout[i].work = (n + 1) \div 2
         /\ stdout[i].bytes = IF n % 2 = 1 THEN "json" ELSE "newline"

\* page 2 is written whole before page 1, whose worker waited for the lock
\* and is now between a record and its newline
C23_Witness ==
  /\ Len(stdout) = 5
  /\ stdout[1].page = 2 /\ stdout[4].page = 2
  /\ stdout[5].page = 1 /\ stdout[5].bytes = "json"
  /\ handle # 0
  /\ threads[handle].page = 1
  /\ threads[handle].works = 2

\* ------------------------------------------------ the input file, as the
\* claim sees it
\* the lines of chunk k (counted from 0) of a file of n lines
ChunkLines(k) ==
  LET from == k * chunk_size + 1
      to == IF (k + 1) * chunk_size < Len(file)
              THEN (k + 1) * chunk_size ELSE Len(file)
  IN [i \in 1..(to - from + 1) |-> from + i - 1]

\* the first line that is unreadable or no Work record, 0 without one
FirstBadLine ==
  IF \E i \in 1..Len(file) : file[i] # "work"
    THEN CHOOSE i \in 1..Len(file) :
           file[i] # "work" /\ \A j \in 1..(i - 1) : file[j] = "work"
    ELSE 0

FailedOnLine ==
  index_pc = "returned" /\ ~index_result.ok /\ index_result.err # <<"send">>

\* C24: bulk request k carries the records of the lines of chunk k, at
\* most chunk_size of them, in input order, and is sent when all of them
\* are read; a run that fails on a line of chunk k has sent the chunks
\* before k and neither chunk k nor a later one; a run that ends well has
\* sent every chunk.
C24_ChunkedUpload ==
  /\ \A k \in 1..Len(bulk) :
       /\ bulk[k] = ChunkLines(k - 1)
       /\ Len(bulk[k]) \in 1..chunk_size
       /\ bulk[k][Len(bulk[k])] <= lines_read
       /\ \A i \in 1..Len(bulk[k]) : file[bulk[k][i]] = "work"
  /\ FailedOnLine =>
       /\ FirstBadLine # 0
       /\ lines_read = FirstBadLine
       /\ Len(bulk) = (FirstBadLine - 1) \div chunk_size
  /\ index_pc = "returned" /\ index_result.ok =>
       /\ FirstBadLine = 0
       /\ Len(bulk) * chunk_size >= Len(file)
       /\ Len(file) > (Len(bulk) - 1) * chunk_size

\* four lines in chunks of two, the last line no Work record: chunk 0 is
\* sent, chunk 1 is not
C24_Witness ==
  /\ FailedOnLine
  /\ chunk_size = 2
  /\ Len(file) = 4
  /\ FirstBadLine = 4
  /\ bulk = << <<1, 2>> >>
  /\ index_result = Err(<<"line json">>)

====
